---------------------------- MODULE Spec2Model ----------------------------
(***************************************************************************)
(* A model of src/src/App.jsx: the CSV aggregation done in the Papa.parse  *)
(* `complete` callback (lines 69-111) and the vote workflow of handleVote  *)
(* and fetchVoteStats (lines 39-56 and 125-179).  The fetchVoteStats call   *)
(* of the modal's effect (lines 59-63) and the metric filter are left out:  *)
(* they write voteStats, firebaseLoaded and selectedMetric only.            *)
(*                                                                         *)
(* JavaScript numbers are modelled as FNum values: a finite integer, an    *)
(* infinity or NaN, with IEEE-754 addition and subtraction on them.  The   *)
(* numeric texts of the row pool are integral, so no rounding occurs in    *)
(* the modelled inputs.                                                    *)
(***************************************************************************)
EXTENDS Integers, Sequences, FiniteSets, TLC

VARIABLES
    rows,           \* results.data handed to the complete callback
    csv,            \* "pending" | "complete" | "error": the Papa.parse request
    chartData,      \* useState([])     line 25
    loading,        \* useState(true)   line 26
    totalRecords,   \* useState(0)      line 28
    votes,          \* the Firestore collection 'votes' (documents in creation order)
    email,          \* per browser session: useState('')    line 32
    isSubmitting,   \* per browser session: useState(false) line 33
    submitMessage,  \* per browser session: useState(null)  line 34
    showModal,      \* per browser session: useState(false) line 31
    voteStats,      \* per browser session: useState({for: 0, against: 0}) line 35
    firebaseLoaded, \* per browser session: useState(false) line 36
    pc,             \* per browser session: where its handleVote call is suspended
    call,           \* per browser session: the closure of the running handleVote call
    timers,         \* per browser session: pending setTimeout callbacks (line 165)
    calls           \* number of handleVote calls that passed the email check

csvVars  == <<rows, csv, chartData, loading, totalRecords>>
voteVars == <<votes, email, isSubmitting, submitMessage, showModal, voteStats,
              firebaseLoaded, pc, call, timers, calls>>
vars     == <<rows, csv, chartData, loading, totalRecords, votes, email,
              isSubmitting, submitMessage, showModal, voteStats, firebaseLoaded,
              pc, call, timers, calls>>

-----------------------------------------------------------------------------
(* Program constants and the bounds of the model.                          *)

TopN == 15
LabelMax == 20
LabelKeep == 18

MaxRows == 2
MaxCalls == 2

-----------------------------------------------------------------------------
(* JavaScript numbers.                                                     *)

Num(n) == [kind |-> "fin", v |-> n]
PosInf == [kind |-> "inf", v |-> 1]
NegInf == [kind |-> "inf", v |-> -1]
NaN    == [kind |-> "nan", v |-> 0]

\* a + b on doubles
FAdd(a, b) ==
    IF a.kind = "nan" \/ b.kind = "nan" THEN NaN
    ELSE IF a.kind = "inf" /\ b.kind = "inf"
         THEN (IF a.v = b.v THEN a ELSE NaN)
    ELSE IF a.kind = "inf" THEN a
    ELSE IF b.kind = "inf" THEN b
    ELSE Num(a.v + b.v)

FNeg(a) == IF a.kind = "nan" THEN NaN ELSE [kind |-> a.kind, v |-> 0 - a.v]

\* a - b on doubles
FSub(a, b) == FAdd(a, FNeg(b))

\* ToBoolean of a number: 0 and NaN are falsy
Truthy(a) == ~(a.kind = "nan" \/ (a.kind = "fin" /\ a.v = 0))

\* x || 0
OrZero(a) == IF Truthy(a) THEN a ELSE Num(0)

-----------------------------------------------------------------------------
(* Strings and parseFloat.                                                 *)

CharAt(s, i) == SubSeq(s, i, i)
Tail1(s) == SubSeq(s, 2, Len(s))
StartsWith(s, p) == Len(s) >= Len(p) /\ SubSeq(s, 1, Len(p)) = p

DigitChars == <<"0", "1", "2", "3", "4", "5", "6", "7", "8", "9">>
IsDigit(c) == \E d \in 1..10 : DigitChars[d] = c
DigitVal(c) == (CHOOSE d \in 1..10 : DigitChars[d] = c) - 1
IsSpace(c) == c = " " \/ c = "\t"

RECURSIVE TrimStart(_)
TrimStart(s) ==
    IF Len(s) > 0 /\ IsSpace(CharAt(s, 1)) THEN TrimStart(Tail1(s)) ELSE s

\* the number of leading decimal digits of s
RECURSIVE DigitPrefixLen(_)
DigitPrefixLen(s) ==
    IF Len(s) > 0 /\ IsDigit(CharAt(s, 1)) THEN 1 + DigitPrefixLen(Tail1(s)) ELSE 0

\* the value of a string of decimal digits
RECURSIVE DigitsValue(_)
DigitsValue(s) ==
    IF Len(s) = 0 THEN 0
    ELSE 10 * DigitsValue(SubSeq(s, 1, Len(s) - 1)) + DigitVal(CharAt(s, Len(s)))

\* parseFloat of a string without sign: "Infinity", or the longest prefix of
\* decimal digits (the texts of the pool have no fraction or exponent part)
ParseUnsigned(s) ==
    IF StartsWith(s, "Infinity") THEN PosInf
    ELSE IF DigitPrefixLen(s) = 0 THEN NaN
    ELSE Num(DigitsValue(SubSeq(s, 1, DigitPrefixLen(s))))

\* parseFloat(string): leading white space skipped, optional sign, trailing
\* characters ignored, NaN when no number starts the text
ParseFloatStr(s) ==
    LET t == TrimStart(s) IN
    IF Len(t) > 0 /\ CharAt(t, 1) = "-" THEN FNeg(ParseUnsigned(Tail1(t)))
    ELSE IF Len(t) > 0 /\ CharAt(t, 1) = "+" THEN ParseUnsigned(Tail1(t))
    ELSE ParseUnsigned(t)

\* row[col]: a field is a text, or undefined when the row has no such key
Field(row, col) ==
    IF col \in DOMAIN row THEN [def |-> TRUE, s |-> row[col]]
    ELSE [def |-> FALSE, s |-> "undefined"]

\* parseFloat(row[col]): an undefined argument is converted to "undefined"
ParseFloat(f) == ParseFloatStr(f.s)

\* parseFloat(row[col]) without the || 0
ParsedValueNoDefault(row, col) == ParseFloat(Field(row, col))

\* parseFloat(row[col]) || 0
ParsedValue(row, col) == OrZero(ParseFloat(Field(row, col)))

-----------------------------------------------------------------------------
(* The accumulator object warehouseData = {} (line 73).  Its own properties *)
(* are kept in creation order; every accumulator carries its key as name.   *)

\* property names every object literal inherits from Object.prototype; the
\* inherited values are functions or objects, hence truthy
ObjectPrototypeKeys ==
    {"constructor", "__proto__", "toString", "toLocaleString", "valueOf",
     "hasOwnProperty", "isPrototypeOf", "propertyIsEnumerable",
     "__defineGetter__", "__defineSetter__", "__lookupGetter__",
     "__lookupSetter__"}

HasOwn(wd, k) == \E i \in 1..Len(wd) : wd[i].name = k
IndexOf(wd, k) == CHOOSE i \in 1..Len(wd) : wd[i].name = k

\* ToBoolean(warehouseData[k]): an own accumulator, or an inherited property
LookupTruthy(wd, k) == HasOwn(wd, k) \/ k \in ObjectPrototypeKeys

\* lines 80-85
NewAccumulator(k) ==
    [name |-> k, warehouseSales |-> Num(0), retailSales |-> Num(0),
     retailTransfers |-> Num(0)]

\* lines 88-90 with the retail sales added to the warehouse sales as well
AccumulateCrossed(acc, row) ==
    [acc EXCEPT !.warehouseSales = FAdd(FAdd(@, ParsedValue(row, "WAREHOUSE SALES")),
                                        ParsedValue(row, "RETAIL SALES")),
                !.retailSales = FAdd(@, ParsedValue(row, "RETAIL SALES")),
                !.retailTransfers = FAdd(@, ParsedValue(row, "RETAIL TRANSFERS"))]

\* lines 88-90
Accumulate(acc, row) ==
    [acc EXCEPT !.warehouseSales = FAdd(@, ParsedValue(row, "WAREHOUSE SALES")),
                !.retailSales = FAdd(@, ParsedValue(row, "RETAIL SALES")),
                !.retailTransfers = FAdd(@, ParsedValue(row, "RETAIL TRANSFERS"))]

\* line 77 testing for an undefined supplier only
SkipRowUndefinedOnly(row) == ~Field(row, "SUPPLIER").def

\* line 77: !warehouse || warehouse === ''
SkipRow(row) ==
    LET f == Field(row, "SUPPLIER") IN ~f.def \/ f.s = ""

\* the body of results.data.forEach (lines 75-91).  When the key is found on
\* Object.prototype and is no own property, the three += land on the inherited
\* object and warehouseData gets no property.
AddRow(wd, row) ==
    IF SkipRow(row) THEN wd
    ELSE LET k == row["SUPPLIER"]
             wd1 == IF LookupTruthy(wd, k) THEN wd
                    ELSE Append(wd, NewAccumulator(k))
         IN IF HasOwn(wd1, k)
            THEN [wd1 EXCEPT ![IndexOf(wd1, k)] = Accumulate(@, row)]
            ELSE wd1

\* results.data.forEach(...) from an empty warehouseData.  (Len(wd) < 0 is
\* never true: the test makes TLC evaluate wd before the next row is taken.)
RECURSIVE ForEachRow(_, _)
ForEachRow(wd, rs) ==
    IF rs = << >> \/ Len(wd) < 0 THEN wd
    ELSE ForEachRow(AddRow(wd, Head(rs)), Tail(rs))

Aggregate(rs) == ForEachRow(<< >>, rs)

\* a canonical array index: "0", or digits without a leading zero, below
\* 2^32 - 1 (decided here for keys of up to nine digits, which all are)
IsArrayIndex(k) ==
    /\ Len(k) > 0
    /\ Len(k) <= 9
    /\ DigitPrefixLen(k) = Len(k)
    /\ (Len(k) = 1 \/ CharAt(k, 1) # "0")

\* the accumulators with array-index keys, in ascending numeric order
RECURSIVE IndexOrdered(_)
IndexOrdered(wd) ==
    IF wd = << >> THEN << >>
    ELSE LET m == CHOOSE i \in 1..Len(wd) :
                      \A j \in 1..Len(wd) :
                          DigitsValue(wd[i].name) <= DigitsValue(wd[j].name)
             rest == [j \in 1..(Len(wd) - 1) |-> IF j < m THEN wd[j] ELSE wd[j + 1]]
         IN <<wd[m]>> \o IndexOrdered(rest)

IsIndexAcc(acc) == IsArrayIndex(acc.name)
IsNamedAcc(acc) == ~IsArrayIndex(acc.name)

\* Object.values(warehouseData): array-index keys ascending, then the other
\* keys in creation order
ObjectValues(wd) ==
    IndexOrdered(SelectSeq(wd, IsIndexAcc)) \o SelectSeq(wd, IsNamedAcc)

\* line 96
Total(item) == FAdd(FAdd(item.warehouseSales, item.retailSales), item.retailTransfers)

\* lines 94-97
WithTotal(item) ==
    [name |-> item.name, warehouseSales |-> item.warehouseSales,
     retailSales |-> item.retailSales, retailTransfers |-> item.retailTransfers,
     total |-> Total(item)]

DataArray(wd) ==
    LET vals == ObjectValues(wd) IN [i \in 1..Len(vals) |-> WithTotal(vals[i])]

-----------------------------------------------------------------------------
(* dataArray.sort((a, b) => b.total - a.total)  (line 100).                 *)

\* the comparator of line 100
Compare(a, b) == FSub(b.total, a.total)

\* what the sort reads off the comparator: negative, positive, or 0; a NaN
\* result counts as 0
Order(a, b) ==
    LET v == Compare(a, b) IN
    IF v.kind = "nan" THEN 0 ELSE IF v.v < 0 THEN -1 ELSE IF v.v > 0 THEN 1 ELSE 0

InsertAt(s, pos, x) == SubSeq(s, 1, pos - 1) \o <<x>> \o SubSeq(s, pos, Len(s))

Reverse(s) == [i \in 1..Len(s) |-> s[Len(s) + 1 - i]]

\* the place of x in the sorted sequence s, scanning from the right
RECURSIVE LinearPlace(_, _, _)
LinearPlace(s, x, j) ==
    IF j >= 1 /\ Order(s[j], x) > 0 THEN LinearPlace(s, x, j - 1) ELSE j + 1

\* a straight insertion sort of s[from..Len(s)] into the sorted sequence done
\* (Len(done) < 0 is never true: it makes TLC evaluate done at every step)
RECURSIVE InsertionSortFrom(_, _, _)
InsertionSortFrom(done, s, from) ==
    IF from > Len(s) \/ Len(done) < 0 THEN done
    ELSE InsertionSortFrom(InsertAt(done, LinearPlace(done, s[from], Len(done)), s[from]),
                           s, from + 1)

InsertionSort(s) == InsertionSortFrom(<< >>, s, 1)

\* the place of pivot in the sorted sequence s by bisection of [left, right)
\* (positions counted from 0)
RECURSIVE BinaryPlace(_, _, _, _)
BinaryPlace(s, pivot, left, right) ==
    IF left >= right THEN left
    ELSE LET mid == left + ((right - left) \div 2) IN
         IF Order(pivot, s[mid + 1]) < 0
         THEN BinaryPlace(s, pivot, left, mid)
         ELSE BinaryPlace(s, pivot, mid + 1, right)

RECURSIVE BinaryInsertionFrom(_, _, _)
BinaryInsertionFrom(done, s, from) ==
    IF from > Len(s) \/ Len(done) < 0 THEN done
    ELSE BinaryInsertionFrom(
             InsertAt(done, BinaryPlace(done, s[from], 0, Len(done)) + 1, s[from]),
             s, from + 1)

\* the length of the run that starts the array: non-descending, or strictly
\* descending
RECURSIVE RunLength(_, _, _)
RunLength(s, descending, n) ==
    IF n >= Len(s) THEN n
    ELSE LET o == Order(s[n + 1], s[n]) IN
         IF (descending /\ o >= 0) \/ (~descending /\ o < 0) THEN n
         ELSE RunLength(s, descending, n + 1)

\* a run-detecting binary insertion sort: the merge-free case of TimSort, which
\* arrays shorter than the minimal run length take
RunInsertionSort(s) ==
    IF Len(s) < 2 THEN s
    ELSE LET descending == Order(s[2], s[1]) < 0
             n == RunLength(s, descending, 2)
             run == IF descending THEN Reverse(SubSeq(s, 1, n)) ELSE SubSeq(s, 1, n)
         IN BinaryInsertionFrom(run, s, n + 1)

\* line 100 left out: the array stays in Object.values order
SortSkipped(s) == {s}

\* The results Array.prototype.sort may give.  With a consistent comparator the
\* sort is stable and both algorithms give the one stable order; with an
\* inconsistent one (a NaN total beside unequal totals) the order is
\* implementation-defined and the algorithms may differ.
SortOutcomes(s) == {InsertionSort(s), RunInsertionSort(s)}

-----------------------------------------------------------------------------
(* slice and the display label (lines 101-107).                            *)

Min(a, b) == IF a < b THEN a ELSE b

\* dataArray.slice(0, 15)
Slice(s) == SubSeq(s, 1, Min(TopN, Len(s)))

\* line 106 with the kept length as the threshold
ShortNameEarly(name) ==
    IF Len(name) > LabelKeep THEN SubSeq(name, 1, LabelKeep) \o "..." ELSE name

\* line 106
ShortName(name) ==
    IF Len(name) > LabelMax THEN SubSeq(name, 1, LabelKeep) \o "..." ELSE name

\* lines 104-107
Format(item) ==
    [name |-> item.name, warehouseSales |-> item.warehouseSales,
     retailSales |-> item.retailSales, retailTransfers |-> item.retailTransfers,
     total |-> item.total, shortName |-> ShortName(item.name)]

FormattedData(top) == [i \in 1..Len(top) |-> Format(top[i])]

\* every value the complete callback may pass to setChartData for the rows rs
ChartOutcomes(rs) ==
    {FormattedData(Slice(sorted)) : sorted \in SortOutcomes(DataArray(Aggregate(rs)))}

-----------------------------------------------------------------------------
(* The rows Papa.parse may deliver (header: true, line 68): each row maps   *)
(* column names to texts; a short line leaves its last columns undefined.   *)

Row(supplier, ws, rs, rt) ==
    ("SUPPLIER" :> supplier) @@ ("WAREHOUSE SALES" :> ws) @@
    ("RETAIL SALES" :> rs) @@ ("RETAIL TRANSFERS" :> rt)

\* a line cut short after RETAIL SALES
RowNoTransfers(supplier, ws, rs) ==
    ("SUPPLIER" :> supplier) @@ ("WAREHOUSE SALES" :> ws) @@ ("RETAIL SALES" :> rs)

\* a line without a SUPPLIER column
RowNoSupplier(ws, rs, rt) ==
    ("WAREHOUSE SALES" :> ws) @@ ("RETAIL SALES" :> rs) @@ ("RETAIL TRANSFERS" :> rt)

Name20 == "Twenty Characters Co"
Name21 == "Twenty-One Letters Co"
Name41 == "Great Lakes Wine & Spirits Distribution Co"

RowPool ==
    {Row("a", "10", "5", "0"), Row("a", "3", "", "2"),
     RowNoTransfers("a", "Infinity", "-Infinity"), Row("a", "abc", "-4", " 12abc"),
     Row("A", "10", "5", "0"), Row("A", "3", "", "2"),
     Row("a ", "10", "5", "0"), Row("7", "10", "5", "0")}
    \cup {Row("", "10", "5", "0"), RowNoSupplier("10", "5", "0"),
          Row("constructor", "10", "5", "0"),
          Row(Name20, "3", "", "2"), Row(Name21, "3", "", "2"),
          Row(Name41, "3", "", "2")}

\* the decimal text of a natural number
RECURSIVE ToText(_)
ToText(n) ==
    IF n < 10 THEN DigitChars[n + 1] ELSE ToText(n \div 10) \o DigitChars[(n % 10) + 1]

\* TopN - 1 further suppliers with the pairwise different totals 6, 9, 12, ...
FillerRows ==
    [j \in 1..(TopN - 1) |-> Row("w" \o ToText(j), ToText(3 * j + 3), "0", "0")]

FreeRows == UNION {[1..n -> RowPool] : n \in 0..MaxRows}

Inputs ==
    FreeRows
    \cup {FillerRows \o free : free \in FreeRows}
    \cup {free \o FillerRows : free \in FreeRows}

-----------------------------------------------------------------------------
(* The browser sessions of the vote workflow.                               *)

Sessions == {1, 2}

NoMessage == [type |-> "none", text |-> ""]
NoCall == [email |-> "", voteType |-> "none"]

InitVote ==
    /\ votes = << >>
    /\ email = [s \in Sessions |-> ""]
    /\ isSubmitting = [s \in Sessions |-> FALSE]
    /\ submitMessage = [s \in Sessions |-> NoMessage]
    /\ showModal = [s \in Sessions |-> FALSE]
    /\ voteStats = [s \in Sessions |-> [for |-> 0, against |-> 0]]
    /\ firebaseLoaded = [s \in Sessions |-> FALSE]
    /\ pc = [s \in Sessions |-> "idle"]
    /\ call = [s \in Sessions |-> NoCall]
    /\ timers = [s \in Sessions |-> 0]
    /\ calls = 0

-----------------------------------------------------------------------------
(* The CSV effect (lines 65-117).                                           *)

InitCsv ==
    /\ csv = "pending"
    /\ chartData = << >>
    /\ loading = TRUE
    /\ totalRecords = 0

Init ==
    /\ rows \in Inputs
    /\ InitCsv
    /\ InitVote

\* the complete callback (lines 69-111)
Complete ==
    /\ csv = "pending"
    /\ csv' = "complete"
    /\ totalRecords' = Len(rows)
    /\ chartData' \in ChartOutcomes(rows)
    /\ loading' = FALSE
    /\ UNCHANGED <<rows, voteVars>>

\* the error callback (lines 112-115)
ParseError ==
    /\ csv = "pending"
    /\ csv' = "error"
    /\ loading' = FALSE
    /\ UNCHANGED <<rows, chartData, totalRecords, voteVars>>

Next == Complete \/ ParseError

Spec == Init /\ [][Next]_vars

-----------------------------------------------------------------------------
(* The vote workflow: handleVote (lines 125-179), fetchVoteStats (lines     *)
(* 39-56) and the modal's handlers, one copy per browser session, over the  *)
(* one shared collection 'votes'.  An await is a suspension point: the call *)
(* resumes in a later step, with the store's answer or its failure.         *)

UpperChars == "ABCDEFGHIJKLMNOPQRSTUVWXYZ"
LowerChars == "abcdefghijklmnopqrstuvwxyz"

LowerChar(c) ==
    IF \E i \in 1..Len(UpperChars) : CharAt(UpperChars, i) = c
    THEN CharAt(LowerChars, CHOOSE i \in 1..Len(UpperChars) : CharAt(UpperChars, i) = c)
    ELSE c

\* email.toLowerCase()
RECURSIVE ToLowerCase(_)
ToLowerCase(str) ==
    IF Len(str) = 0 THEN str ELSE LowerChar(CharAt(str, 1)) \o ToLowerCase(Tail1(str))

\* str.includes('@')
IncludesAt(str) == \E i \in 1..Len(str) : CharAt(str, i) = "@"

\* line 126 negated: email && email.includes('@')
EmailAccepted(str) == str # "" /\ IncludesAt(str)

EmailPool == {"ab", "A@b", "a@b"}
VoteTypes == {"for", "against"}

InvalidEmailMessage == [type |-> "error", text |-> "Please enter a valid email address"]
AlreadyVotedMessage == [type |-> "error", text |-> "This email has already voted!"]
VoteRecordedMessage == [type |-> "success", text |-> "Vote recorded!"]
StoreErrorMessage ==
    [type |-> "error", text |-> "Error submitting vote. Please check Firebase configuration."]

\* the documents query(votesRef, where('email', '==', e)) finds
Matching(e) == SelectSeq(votes, LAMBDA d : d.email = e)

\* the tallies of lines 44-51 over a snapshot of the collection
Tally(snapshot) ==
    [for |-> Len(SelectSeq(snapshot, LAMBDA d : d.vote = "for")),
     against |-> Len(SelectSeq(snapshot, LAMBDA d : d.vote = "against"))]

\* the state after Papa.parse completed on a file without rows
InitVoteCsv ==
    /\ rows = << >>
    /\ csv = "complete"
    /\ chartData = << >>
    /\ loading = FALSE
    /\ totalRecords = 0

VoteInit == InitVoteCsv /\ InitVote

\* line 217: the Vote Now button
OpenModal(s) ==
    /\ ~loading
    /\ ~showModal[s]
    /\ showModal' = [showModal EXCEPT ![s] = TRUE]
    /\ UNCHANGED <<csvVars, votes, email, isSubmitting, submitMessage, voteStats,
                   firebaseLoaded, pc, call, timers, calls>>

\* lines 225 and 227: the overlay and the close button
CloseModal(s) ==
    /\ showModal[s]
    /\ showModal' = [showModal EXCEPT ![s] = FALSE]
    /\ UNCHANGED <<csvVars, votes, email, isSubmitting, submitMessage, voteStats,
                   firebaseLoaded, pc, call, timers, calls>>

\* line 254: the email input, disabled while submitting (line 255)
SetEmail(s, e) ==
    /\ showModal[s]
    /\ ~isSubmitting[s]
    /\ email[s] # e
    /\ email' = [email EXCEPT ![s] = e]
    /\ UNCHANGED <<csvVars, votes, isSubmitting, submitMessage, showModal, voteStats,
                   firebaseLoaded, pc, call, timers, calls>>

\* lines 126-129: the call is turned down
RejectVote(s) ==
    /\ ~EmailAccepted(email[s])
    /\ submitMessage' = [submitMessage EXCEPT ![s] = InvalidEmailMessage]
    /\ UNCHANGED <<isSubmitting, pc, call, calls>>

\* lines 131-135: up to the first await
BeginVote(s, v) ==
    /\ EmailAccepted(email[s])
    /\ calls < MaxCalls
    /\ isSubmitting' = [isSubmitting EXCEPT ![s] = TRUE]
    /\ submitMessage' = [submitMessage EXCEPT ![s] = NoMessage]
    /\ pc' = [pc EXCEPT ![s] = "modules"]
    /\ call' = [call EXCEPT ![s] = [email |-> email[s], voteType |-> v]]
    /\ calls' = calls + 1

\* handleVote(voteType) from a click on a vote button, which is rendered in
\* the open modal and disabled while submitting (lines 266-279)
HandleVote(s, v) ==
    /\ showModal[s]
    /\ ~isSubmitting[s]
    /\ pc[s] = "idle"
    /\ (RejectVote(s) \/ BeginVote(s, v))
    /\ UNCHANGED <<csvVars, votes, email, showModal, voteStats, firebaseLoaded, timers>>

\* lines 170-178: the catch block and the statement after it
CatchError(s) ==
    /\ submitMessage' = [submitMessage EXCEPT ![s] = StoreErrorMessage]
    /\ isSubmitting' = [isSubmitting EXCEPT ![s] = FALSE]
    /\ pc' = [pc EXCEPT ![s] = "idle"]
    /\ call' = [call EXCEPT ![s] = NoCall]

\* line 135 resolved; lines 138-140 send the query
ModulesLoaded(s) ==
    /\ pc[s] = "modules"
    /\ pc' = [pc EXCEPT ![s] = "query"]
    /\ UNCHANGED <<csvVars, votes, email, isSubmitting, submitMessage, showModal,
                   voteStats, firebaseLoaded, call, timers, calls>>

\* line 135 rejected
ModulesFailed(s) ==
    /\ pc[s] = "modules"
    /\ CatchError(s)
    /\ UNCHANGED <<csvVars, votes, email, showModal, voteStats, firebaseLoaded,
                   timers, calls>>

\* lines 142-146 without line 144
AlreadyVotedNoReset(s) ==
    /\ Matching(ToLowerCase(call[s].email)) # << >>
    /\ submitMessage' = [submitMessage EXCEPT ![s] = AlreadyVotedMessage]
    /\ pc' = [pc EXCEPT ![s] = "idle"]
    /\ UNCHANGED <<isSubmitting, call>>

\* lines 142-146: the email is found among the votes
AlreadyVoted(s) ==
    /\ Matching(ToLowerCase(call[s].email)) # << >>
    /\ submitMessage' = [submitMessage EXCEPT ![s] = AlreadyVotedMessage]
    /\ isSubmitting' = [isSubmitting EXCEPT ![s] = FALSE]
    /\ pc' = [pc EXCEPT ![s] = "idle"]
    /\ call' = [call EXCEPT ![s] = NoCall]

\* lines 149-153: addDoc is sent
SendVote(s) ==
    /\ Matching(ToLowerCase(call[s].email)) = << >>
    /\ pc' = [pc EXCEPT ![s] = "add"]
    /\ UNCHANGED <<submitMessage, isSubmitting, call>>

\* line 140 resolved with the documents that match at that moment
QueryDone(s) ==
    /\ pc[s] = "query"
    /\ (AlreadyVoted(s) \/ SendVote(s))
    /\ UNCHANGED <<csvVars, votes, email, showModal, voteStats, firebaseLoaded,
                   timers, calls>>

\* line 140 rejected
QueryFailed(s) ==
    /\ pc[s] = "query"
    /\ CatchError(s)
    /\ UNCHANGED <<csvVars, votes, email, showModal, voteStats, firebaseLoaded,
                   timers, calls>>

\* line 149 resolved: the document exists; lines 155-162 run up to the awaits
\* of fetchVoteStats
AddDone(s) ==
    /\ pc[s] = "add"
    /\ votes' = Append(votes, [email |-> ToLowerCase(call[s].email),
                               vote |-> call[s].voteType])
    /\ submitMessage' = [submitMessage EXCEPT ![s] = VoteRecordedMessage]
    /\ email' = [email EXCEPT ![s] = ""]
    /\ pc' = [pc EXCEPT ![s] = "refresh"]
    /\ UNCHANGED <<csvVars, isSubmitting, showModal, voteStats, firebaseLoaded,
                   call, timers, calls>>

\* line 149 rejected
AddFailed(s) ==
    /\ pc[s] = "add"
    /\ CatchError(s)
    /\ UNCHANGED <<csvVars, votes, email, showModal, voteStats, firebaseLoaded,
                   timers, calls>>

\* lines 165-168 and 178: the timer is set and the call ends
FinishVote(s) ==
    /\ timers' = [timers EXCEPT ![s] = @ + 1]
    /\ isSubmitting' = [isSubmitting EXCEPT ![s] = FALSE]
    /\ pc' = [pc EXCEPT ![s] = "idle"]
    /\ call' = [call EXCEPT ![s] = NoCall]

\* fetchVoteStats resolved its awaits (lines 41-52) inside handleVote
RefreshDone(s) ==
    /\ pc[s] = "refresh"
    /\ voteStats' = [voteStats EXCEPT ![s] = Tally(votes)]
    /\ firebaseLoaded' = [firebaseLoaded EXCEPT ![s] = TRUE]
    /\ FinishVote(s)
    /\ UNCHANGED <<csvVars, votes, email, submitMessage, showModal, calls>>

\* an await of fetchVoteStats rejected: its own catch (lines 53-55) swallows
\* the error and handleVote goes on
RefreshFailed(s) ==
    /\ pc[s] = "refresh"
    /\ FinishVote(s)
    /\ UNCHANGED <<csvVars, votes, email, submitMessage, showModal, voteStats,
                   firebaseLoaded, calls>>

\* the setTimeout callback (lines 165-168)
TimerFires(s) ==
    /\ timers[s] > 0
    /\ timers' = [timers EXCEPT ![s] = @ - 1]
    /\ showModal' = [showModal EXCEPT ![s] = FALSE]
    /\ submitMessage' = [submitMessage EXCEPT ![s] = NoMessage]
    /\ UNCHANGED <<csvVars, votes, email, isSubmitting, voteStats, firebaseLoaded,
                   pc, call, calls>>

\* the steps in which a pending import or store request of session s settles
Settle(s) ==
    \/ ModulesLoaded(s)
    \/ ModulesFailed(s)
    \/ QueryDone(s)
    \/ QueryFailed(s)
    \/ AddDone(s)
    \/ AddFailed(s)
    \/ RefreshDone(s)
    \/ RefreshFailed(s)

VoteNext ==
    \E s \in Sessions :
        \/ OpenModal(s)
        \/ CloseModal(s)
        \/ \E e \in EmailPool : SetEmail(s, e)
        \/ \E v \in VoteTypes : HandleVote(s, v)
        \/ Settle(s)
        \/ TimerFires(s)

VoteSpec == VoteInit /\ [][VoteNext]_vars

\* every pending import or store request settles
VoteFairSpec == VoteSpec /\ \A s \in Sessions : WF_vars(Settle(s))

-----------------------------------------------------------------------------
(* Properties of the aggregation.                                          *)

HasSupplier(row) == "SUPPLIER" \in DOMAIN row /\ row["SUPPLIER"] # ""

\* a >= b on doubles (false whenever an operand is NaN)
FGeq(a, b) ==
    /\ a.kind # "nan"
    /\ b.kind # "nan"
    /\ IF a.kind = "inf" THEN (a.v = 1 \/ b = a)
       ELSE IF b.kind = "inf" THEN b.v = -1
       ELSE a.v >= b.v

\* a > b on doubles
FGt(a, b) == FGeq(a, b) /\ a # b

\* the distinct non-empty SUPPLIER values of rs
DistinctSuppliers(rs) ==
    {rs[i]["SUPPLIER"] : i \in {j \in 1..Len(rs) : HasSupplier(rs[j])}}

\* the sum, in row order, of the parsed col values of the rows of rs whose
\* SUPPLIER is exactly k
RECURSIVE SumColumn(_, _, _)
SumColumn(rs, k, col) ==
    IF rs = << >> THEN Num(0)
    ELSE LET front == SubSeq(rs, 1, Len(rs) - 1)
             last == rs[Len(rs)]
         IN IF HasSupplier(last) /\ last["SUPPLIER"] = k
            THEN FAdd(SumColumn(front, k, col), ParsedValue(last, col))
            ELSE SumColumn(front, k, col)

GroupTotal(rs, k) ==
    FAdd(FAdd(SumColumn(rs, k, "WAREHOUSE SALES"), SumColumn(rs, k, "RETAIL SALES")),
         SumColumn(rs, k, "RETAIL TRANSFERS"))

OutputNames == {chartData[i].name : i \in 1..Len(chartData)}

\* C1: every output record's warehouseSales, retailSales and retailTransfers
\* equal the sums of the parsed values of the rows whose SUPPLIER is exactly the
\* record's name, and no two output records share a name.
C1_SumsPerSupplier ==
    csv = "complete" =>
        /\ \A i \in 1..Len(chartData) :
               LET r == chartData[i] IN
               /\ r.warehouseSales = SumColumn(rows, r.name, "WAREHOUSE SALES")
               /\ r.retailSales = SumColumn(rows, r.name, "RETAIL SALES")
               /\ r.retailTransfers = SumColumn(rows, r.name, "RETAIL TRANSFERS")
        /\ \A i, j \in 1..Len(chartData) :
               i # j => chartData[i].name # chartData[j].name

\* two rows of supplier "a" were summed while "A" stayed a group of its own
C1_Witness ==
    /\ csv = "complete"
    /\ \E i \in 1..Len(chartData) :
           /\ chartData[i].name = "a"
           /\ chartData[i].warehouseSales = Num(13)
           /\ chartData[i].retailSales = Num(5)
    /\ \E i \in 1..Len(rows) : HasSupplier(rows[i]) /\ rows[i]["SUPPLIER"] # "a"

\* C2 as stated: the number of summary records is exactly
\* min(number of distinct non-empty SUPPLIER values, 15).
C2_LengthIsMin ==
    csv = "complete" =>
        Len(chartData) = Min(Cardinality(DistinctSuppliers(rows)), TopN)

\* C3 as stated: every adjacent pair of output records has
\* earlier.total >= later.total.
C3_SortedDescending ==
    csv = "complete" =>
        \A i \in 1..(Len(chartData) - 1) :
            FGeq(chartData[i].total, chartData[i + 1].total)

\* C4 as stated: with more than 15 distinct non-empty suppliers, no supplier
\* group left out of the output has a total strictly greater than the total of
\* a record in the output.
C4_TopFifteenKept ==
    (csv = "complete" /\ Cardinality(DistinctSuppliers(rows)) > TopN) =>
        \A k \in DistinctSuppliers(rows) \ OutputNames :
            \A i \in 1..Len(chartData) :
                ~FGt(GroupTotal(rows, k), chartData[i].total)

WithSupplier(rs) == SelectSeq(rs, HasSupplier)

\* C5: removing the rows whose SUPPLIER is absent or empty leaves the emitted
\* records unchanged, and no output record has an empty name.
C5_EmptySupplierSkipped ==
    csv = "complete" =>
        /\ chartData \in ChartOutcomes(WithSupplier(rows))
        /\ ChartOutcomes(WithSupplier(rows)) = ChartOutcomes(rows)
        /\ \A i \in 1..Len(chartData) : chartData[i].name # ""

\* rows without SUPPLIER were read beside rows that formed a group
C5_Witness ==
    /\ csv = "complete"
    /\ \E i \in 1..Len(rows) : "SUPPLIER" \notin DOMAIN rows[i]
    /\ \E i \in 1..Len(rows) : "SUPPLIER" \in DOMAIN rows[i] /\ rows[i]["SUPPLIER"] = ""
    /\ Len(chartData) = TopN - 1

NumericColumns == {"WAREHOUSE SALES", "RETAIL SALES", "RETAIL TRANSFERS"}

\* a numeric field that is missing or that parseFloat reads no number from
BadField(row, col) == col \notin DOMAIN row \/ ParseFloatStr(row[col]) = NaN

\* row with its bad numeric fields replaced by the text "0"
RepairRow(row) ==
    IF ~HasSupplier(row) THEN row
    ELSE [col \in DOMAIN row \cup NumericColumns |->
              IF col \in NumericColumns /\ BadField(row, col) THEN "0" ELSE row[col]]

Repaired(rs) == [i \in 1..Len(rs) |-> RepairRow(rs[i])]

\* C6: a missing or unparsable numeric field of a row with a supplier counts as
\* 0 while the row's other fields are still added, and the callback has a
\* result for every input.
C6_BadFieldAddsZero ==
    /\ csv = "complete" =>
           /\ chartData \in ChartOutcomes(Repaired(rows))
           /\ ChartOutcomes(Repaired(rows)) = ChartOutcomes(rows)
    /\ csv = "pending" => Cardinality(ChartOutcomes(rows)) >= 1

\* a row with an unparsable WAREHOUSE SALES still added its RETAIL TRANSFERS
C6_Witness ==
    /\ csv = "complete"
    /\ \E i \in 1..Len(rows) :
           /\ HasSupplier(rows[i])
           /\ BadField(rows[i], "WAREHOUSE SALES")
           /\ ~BadField(rows[i], "RETAIL TRANSFERS")
    /\ \E i \in 1..Len(chartData) :
           /\ chartData[i].warehouseSales = Num(0)
           /\ chartData[i].retailSales = Num(-4)
           /\ chartData[i].retailTransfers = Num(12)

\* C7 as stated: a name of at most 20 characters is its own label, a longer
\* name's label is its first 18 characters plus a marker, 19 characters in all.
C7_LabelNineteen ==
    csv = "complete" =>
        \A i \in 1..Len(chartData) :
            LET r == chartData[i] IN
            IF Len(r.name) <= 20 THEN r.shortName = r.name
            ELSE /\ SubSeq(r.shortName, 1, 18) = SubSeq(r.name, 1, 18)
                 /\ Len(r.shortName) = 19

\* C7 amended: a name of at most 20 characters is its own label, a longer
\* name's label is its first 18 characters plus the three characters "...",
\* 21 characters in all.
C7_LabelTwentyOne ==
    csv = "complete" =>
        \A i \in 1..Len(chartData) :
            LET r == chartData[i] IN
            IF Len(r.name) <= 20 THEN r.shortName = r.name
            ELSE /\ SubSeq(r.shortName, 1, 18) = SubSeq(r.name, 1, 18)
                 /\ SubSeq(r.shortName, 19, Len(r.shortName)) = "..."
                 /\ Len(r.shortName) = 21

\* names of 20, of 21 and of more characters were labelled
C7_Witness ==
    /\ csv = "complete"
    /\ \E i \in 1..Len(chartData) : Len(chartData[i].name) = 20
    /\ \E i \in 1..Len(chartData) : Len(chartData[i].name) > 21

\* the rearrangements of rs that are compared: all of them for a short rs,
\* and for a long one its reversal, its rotation by one row and the exchange
\* of its first and last rows
Rearrangements(rs) ==
    IF Len(rs) <= MaxRows + 1
    THEN {[i \in 1..Len(rs) |-> rs[f[i]]] : f \in Permutations(1..Len(rs))}
    ELSE {Reverse(rs),
          Tail(rs) \o <<Head(rs)>>,
          <<rs[Len(rs)]>> \o SubSeq(rs, 2, Len(rs) - 1) \o <<Head(rs)>>}

TotalsDistinct(rs) ==
    LET d == DataArray(Aggregate(rs)) IN
    \A i, j \in 1..Len(d) : i # j => Order(d[i], d[j]) # 0

-----------------------------------------------------------------------------
(* Properties of the vote workflow.                                        *)

\* C9 as stated: the votes collection holds at most one document for any
\* lower-cased email address.
C9_OneVotePerEmail ==
    \A i, j \in 1..Len(votes) : votes[i].email = votes[j].email => i = j

\* C10: a handleVote call that set isSubmitting sets it back to false once its
\* pending requests settle, whichever way it ends; a call turned down for its
\* email leaves isSubmitting false and sends nothing (a session has a request
\* pending exactly while its pc is not "idle").
C10_SubmittingEnds ==
    /\ \A s \in Sessions : isSubmitting[s] ~> ~isSubmitting[s]
    /\ [][\A s \in Sessions :
              (pc[s] = "idle" /\ ~EmailAccepted(email[s])) =>
                  (pc'[s] = "idle" /\ ~isSubmitting'[s])]_vars
    /\ [](\A s \in Sessions : pc[s] = "idle" => ~isSubmitting[s])

\* one session's call ended with the vote recorded, the other's with the email
\* found to have voted, and both are back to not submitting
C10_Witness ==
    \E s, t \in Sessions :
        /\ submitMessage[s] = VoteRecordedMessage
        /\ submitMessage[t] = AlreadyVotedMessage
        /\ ~isSubmitting[s]
        /\ ~isSubmitting[t]
        /\ calls = 2

=============================================================================
